---- MODULE Spec2Model ----
(***************************************************************************)
(* The user-account workflow of saffron (UserController, part_002) over    *)
(* the credential store and the mailer, and the client reducer (part_000). *)
(*                                                                         *)
(* JavaScript values are records [type, val]; strings that the code        *)
(* inspects character by character (emails: toLowerCase, RegExp) are       *)
(* sequences of one-character strings.  An optional value (a callback      *)
(* argument that may be null) is a set with at most one element.           *)
(***************************************************************************)
EXTENDS Integers, Sequences, FiniteSets, TLC

VARIABLES
    users,        \* the User collection, in insertion (natural) order
    inflight,     \* createUser calls whose save has been issued and not completed
    outbox,       \* the mails handed to the Mailer
    cb,           \* the arguments of the last callback a controller call made
    now,          \* the clock read by Date.now() and by the token expiry check
    uniqueIndex,  \* whether the collection carries a unique index on email
    state,        \* the client store's state (the reducer's state argument)
    fetch,        \* per fetch lifecycle: idle, requested, succeeded or failed
    lastFetch,    \* the kind of the latest fetch-lifecycle action dispatched
    loaded        \* LOAD_STORED_STATE has replaced the state

serverVars == <<users, inflight, outbox, cb, now, uniqueIndex>>
clientVars == <<state, fetch, lastFetch, loaded>>
vars == <<users, inflight, outbox, cb, now, uniqueIndex,
          state, fetch, lastFetch, loaded>>

----------------------------------------------------------------------------
\* Bounds of the model.

MaxUsers == 2
MaxInFlight == 2
MaxClock == 2
MaxResetMails == 1

----------------------------------------------------------------------------
\* JavaScript values.

NULL == "null"

NoEmail == [type |-> "undefined", val |-> <<>>]
NoPassword == [type |-> "undefined", val |-> ""]
Str(s) == [type |-> "string", val |-> s]

E_ab == <<"a", ".", "b", "@", "c", ".", "i", "o">>
E_AB == <<"A", ".", "B", "@", "c", ".", "i", "o">>
E_axb == <<"a", "x", "b", "@", "c", ".", "i", "o">>
E_plus == <<"a", "+", "b", "@", "c", ".", "i", "o">>
\* The string "undefined": what undefined becomes in a concatenation, and a
\* string that is not an email address.
E_undefined == <<"u", "n", "d", "e", "f", "i", "n", "e", "d">>

\* The email addresses callers register with, and what createUser may be
\* handed: one of them, or a value that is not a string.
EmailStrings == {E_ab, E_AB, E_axb, E_plus}
EmailArgs == {Str(e) : e \in EmailStrings} \cup {NoEmail}
PasswordArgs == {NoPassword, Str("12345"), Str("secret"), Str("hunter2")}

\* String.prototype.toLowerCase, per character.
LowerChar(c) == CASE c = "A" -> "a" [] c = "B" -> "b" [] OTHER -> c
toLowerCase(s) == [i \in 1..Len(s) |-> LowerChar(s[i])]

\* String concatenation of a value that may be undefined: '' + undefined.
ToStringChars(v) == IF v.type = "string" THEN v.val ELSE E_undefined

\* !password: undefined or the empty string.
Falsy(v) == v.type = "undefined" \/ Len(v.val) = 0

Min(S) == CHOOSE m \in S : \A n \in S : m <= n

----------------------------------------------------------------------------
\* The User model and the Mailer: collaborators of the controller.

MinPasswordLength == 6
TempTokenTTL == 1

\* User.generateHash, and user.checkPassword against the stored hash.
generateHash(password) == <<"hash", password>>
checkPassword(user, password) == user.password = generateHash(password)

\* new User() with email and password set: unverified, empty profile.
NewUser(id, email, hash) ==
    [id |-> id, email |-> email, password |-> hash, verified |-> FALSE,
     profile |-> [name |-> ""], completedProfile |-> FALSE, lastUpdated |-> 0]

\* user.toJSON(): the document's fields as a plain object, password included.
toJSON(user) == user

\* Tokens: bound to a purpose and to a user id or an email.
NoToken == [purpose |-> "undefined", id |-> 0, email |-> <<>>, exp |-> 0]
BadToken == [purpose |-> "garbage", id |-> 0, email |-> <<>>, exp |-> 0]
generateAuthToken(user) ==
    [purpose |-> "auth", id |-> user.id, email |-> <<>>, exp |-> 0]
generateEmailVerificationToken(user) ==
    [purpose |-> "verify", id |-> 0, email |-> user.email, exp |-> 0]
generateTempAuthToken(user) ==
    [purpose |-> "temp", id |-> user.id, email |-> <<>>, exp |-> now + TempTokenTTL]

\* User.verifyEmailVerificationToken: callback args (err, email).
verifyEmailVerificationToken(token) ==
    IF token.purpose = "verify"
    THEN [err |-> NULL, email |-> Str(token.email)]
    ELSE [err |-> "invalid token", email |-> NoEmail]

\* User.verifyTempAuthToken: callback args (err, id); id 0 stands for no id.
verifyTempAuthToken(token) ==
    IF token.purpose = "temp" /\ now < token.exp
    THEN [err |-> NULL, id |-> token.id]
    ELSE [err |-> "invalid or expired token", id |-> 0]

\* User.validateProfile: the error (or NULL) handed to its callback.
validateProfile(profile) ==
    IF Len(profile.name) > 0 THEN NULL ELSE "invalid profile shape"

\* validator.isEmail: one "@", a local part, a domain with a dot and a
\* top-level label of two characters or more.
isEmail(s) ==
    \E i \in 2..Len(s) :
        /\ s[i] = "@"
        /\ \A k \in 1..Len(s) : s[k] = "@" => k = i
        /\ \E j \in (i + 2)..(Len(s) - 2) : s[j] = "."

\* findOne: the first of the matching documents in natural order; 0 when
\* there is none.
FirstMatch(matching) == IF matching = {} THEN 0 ELSE Min(matching)

\* User.findOneByEmail(email).exec: the first user with that email, if any.
findOneByEmail(email) ==
    LET i == FirstMatch({k \in 1..Len(users) : users[k].email = toLowerCase(email)})
    IN  IF i = 0 THEN {} ELSE {users[i]}

\* RegExp source matching: literals, "." (any character), "x+" (one or
\* more), under the i flag; the pattern is anchored at both ends.
CharMatches(p, c) == p = "." \/ LowerChar(p) = LowerChar(c)

RECURSIVE RegExpMatch(_, _)
RegExpMatch(pat, s) ==
    IF Len(pat) = 0 THEN Len(s) = 0
    ELSE IF Len(pat) >= 2 /\ pat[2] = "+"
    THEN \E k \in 1..Len(s) :
            /\ \A i \in 1..k : CharMatches(pat[1], s[i])
            /\ RegExpMatch(SubSeq(pat, 3, Len(pat)), SubSeq(s, k + 1, Len(s)))
    ELSE /\ Len(s) > 0
         /\ CharMatches(pat[1], s[1])
         /\ RegExpMatch(Tail(pat), Tail(s))

Mail(kind, to, token) == [kind |-> kind, to |-> to, token |-> token]
MailsOf(kind) == {m \in outbox : m.kind = kind}

----------------------------------------------------------------------------
\* UserController.

\* The arguments of a callback, with the store operations the call made.
Result(op, err, token, user, info, store) ==
    [op |-> op, err |-> err, token |-> token, user |-> user, info |-> info,
     store |-> store]

Callback(op, err, token, user, info, store) ==
    cb' = Result(op, err, token, user, info, store)

\* canRegister with the length test off by one.
canRegisterOffByOne(email, password) ==
    IF Falsy(password) \/ Len(password.val) < MinPasswordLength - 1
    THEN "Password must be 6 or more characters."
    ELSE NULL

\* canRegister: the error handed to its callback, NULL when valid.
canRegister(email, password) ==
    IF Falsy(password) \/ Len(password.val) < MinPasswordLength
    THEN "Password must be 6 or more characters."
    ELSE NULL

\* createUser without the toLowerCase step.
NormalizeEmailSkipped(email) == email

\* createUser: email = email.toLowerCase()
NormalizeEmail(email) == toLowerCase(email)

\* createUser without the test of the lookup's result.
AccountExistsNever(found) == FALSE

\* createUser: if (user) in the lookup's callback
AccountExists(found) == found # {}

\* createUser: the user handed to the callback on success
CreatedUser(u) == u

\* A free slot for a createUser call waiting for its save.
FreeSlot == Min((1..MaxInFlight) \ {c.slot : c \in inflight})

\* createUser, from the call to the lookup's callback: either it calls back
\* with an error, or it builds the new user and issues the save.
CreateUser(email, password) ==
    IF email.type # "string"
    THEN /\ Callback("createUser", "Email must be a string.", {}, {}, "", <<>>)
         /\ UNCHANGED <<users, inflight, outbox, now, uniqueIndex, clientVars>>
    ELSE IF canRegister(NormalizeEmail(email.val), password) # NULL
    THEN /\ Callback("createUser",
                     canRegister(NormalizeEmail(email.val), password), {}, {}, "", <<>>)
         /\ UNCHANGED <<users, inflight, outbox, now, uniqueIndex, clientVars>>
    ELSE IF AccountExists(findOneByEmail(NormalizeEmail(email.val)))
    THEN /\ Callback("createUser",
                     "An account for this email already exists.", {}, {}, "", <<"findOneByEmail">>)
         /\ UNCHANGED <<users, inflight, outbox, now, uniqueIndex, clientVars>>
    ELSE /\ Cardinality(inflight) < MaxInFlight
         /\ Len(users) + Cardinality(inflight) < MaxUsers
         /\ inflight' = inflight \cup
                {[slot |-> FreeSlot, email |-> NormalizeEmail(email.val),
                  password |-> generateHash(password.val)]}
         /\ UNCHANGED <<users, outbox, cb, now, uniqueIndex, clientVars>>

\* u.save(callback): the store's write.  With the unique index a second
\* document for an email is refused; without it the document is inserted.
SaveRefused(email) == uniqueIndex /\ \E i \in 1..Len(users) : users[i].email = email

\* createUser, the save and its callback.
CreateUserSave(c) ==
    /\ c \in inflight
    /\ inflight' = inflight \ {c}
    /\ IF SaveRefused(c.email)
       THEN /\ Callback("createUser", "E11000 duplicate key error", {}, {}, "", <<"findOneByEmail", "save">>)
            /\ UNCHANGED <<users, outbox>>
       ELSE LET u == NewUser(Len(users) + 1, c.email, c.password)
            IN  /\ users' = Append(users, u)
                /\ outbox' = outbox \cup
                       {Mail("verification", c.email, generateEmailVerificationToken(u))}
                /\ Callback("createUser", NULL, {generateAuthToken(u)},
                            {CreatedUser(u)}, "", <<"findOneByEmail", "save">>)
    /\ UNCHANGED <<now, uniqueIndex, clientVars>>

\* loginWithPassword without the password test.
PasswordRejectedNever(user, password) == FALSE

\* loginWithPassword: if (!user.checkPassword(password))
PasswordRejected(user, password) == ~checkPassword(user, password)

\* loginWithPassword: var u = user.toJSON(); delete u.password
LoggedInUser(user) ==
    [f \in DOMAIN toJSON(user) \ {"password"} |-> toJSON(user)[f]]

\* loginWithPassword: the callback's arguments.
LoginResult(email, password) ==
    IF Falsy(password)
    THEN Result("loginWithPassword", "Please enter a password", {}, {}, "", <<>>)
    ELSE IF ~isEmail(email)
    THEN Result("loginWithPassword", "Invalid email", {}, {}, "", <<>>)
    ELSE IF findOneByEmail(email) = {}
    THEN Result("loginWithPassword", "We couldn't find you!", {}, {}, "", <<"findOneByEmail">>)
    ELSE LET user == CHOOSE u \in findOneByEmail(email) : TRUE
         IN  IF PasswordRejected(user, password.val)
             THEN Result("loginWithPassword", "That's not the right password.",
                         {}, {}, "", <<"findOneByEmail">>)
             ELSE Result("loginWithPassword", NULL, {generateAuthToken(user)},
                         {LoggedInUser(user)}, "", <<"findOneByEmail">>)

LoginWithPassword(email, password) ==
    /\ cb' = LoginResult(email, password)
    /\ UNCHANGED <<users, inflight, outbox, now, uniqueIndex, clientVars>>

\* findOneAndUpdate(filter, {$set}, ...): the first matching document is
\* replaced by its updated version.
UpdateAt(i, doc) == [users EXCEPT ![i] = doc]

\* updateProfileById filtering on the id alone.
ProfileFilterAnyUser(u, id) == u.id = id

\* updateProfileById: the filter {_id: id, verified: true}
ProfileFilter(u, id) == u.id = id /\ u.verified = TRUE

\* updateProfileById: the $set
ProfileUpdate(u, profile) ==
    [u EXCEPT !.lastUpdated = now, !.profile = profile, !.completedProfile = TRUE]

UpdateProfileById(id, profile) ==
    /\ IF validateProfile(profile) # NULL
       THEN /\ Callback("updateProfileById", "invalid profile", {}, {}, "", <<>>)
            /\ UNCHANGED users
       ELSE LET i == FirstMatch({k \in 1..Len(users) : ProfileFilter(users[k], id)})
            IN  IF i = 0
                THEN /\ Callback("updateProfileById", NULL, {}, {}, "", <<"findOneAndUpdate">>)
                     /\ UNCHANGED users
                ELSE /\ users' = UpdateAt(i, ProfileUpdate(users[i], profile))
                     /\ Callback("updateProfileById", NULL, {},
                                 {ProfileUpdate(users[i], profile)}, "", <<"findOneAndUpdate">>)
    /\ UNCHANGED <<inflight, outbox, now, uniqueIndex, clientVars>>

\* verifyByToken: new RegExp('^' + email + '$', 'i') as the email filter
VerifyFilter(u, email) == RegExpMatch(ToStringChars(email), u.email)

\* verifyByToken: the token's error is not looked at.
VerifyByToken(token) ==
    /\ LET email == verifyEmailVerificationToken(token).email
           i == FirstMatch({k \in 1..Len(users) : VerifyFilter(users[k], email)})
       IN  IF i = 0
           THEN /\ Callback("verifyByToken", NULL, {}, {}, "", <<"findOneAndUpdate">>)
                /\ UNCHANGED users
           ELSE /\ users' = UpdateAt(i, [users[i] EXCEPT !.verified = TRUE])
                /\ Callback("verifyByToken", NULL, {},
                            {[users[i] EXCEPT !.verified = TRUE]}, "", <<"findOneAndUpdate">>)
    /\ UNCHANGED <<inflight, outbox, now, uniqueIndex, clientVars>>

\* sendVerificationEmailById: findOne({_id: id, verified: false})
SendVerificationEmailById(id) ==
    /\ LET i == FirstMatch({k \in 1..Len(users) : users[k].id = id /\ users[k].verified = FALSE})
       IN  IF i = 0
           THEN /\ Callback("sendVerificationEmailById", NULL, {}, {}, "", <<"findOne">>)
                /\ UNCHANGED outbox
           ELSE /\ outbox' = outbox \cup
                       {Mail("verification", users[i].email,
                             generateEmailVerificationToken(users[i]))}
                /\ Callback("sendVerificationEmailById", NULL, {}, {users[i]}, "", <<"findOne">>)
    /\ UNCHANGED <<users, inflight, now, uniqueIndex, clientVars>>

\* sendPasswordResetEmail: the Mailer calls back once the mail is handed over.
SendPasswordResetEmail(email) ==
    /\ Cardinality(MailsOf("passwordReset")) < MaxResetMails
    /\ IF findOneByEmail(email) = {}
       THEN /\ Callback("sendPasswordResetEmail", NULL, {}, {}, "", <<"findOneByEmail">>)
            /\ UNCHANGED outbox
       ELSE LET user == CHOOSE u \in findOneByEmail(email) : TRUE
            IN  /\ outbox' = outbox \cup
                        {Mail("passwordReset", email, generateTempAuthToken(user))}
                /\ Callback("sendPasswordResetEmail", NULL, {}, {}, "mail sent", <<"findOneByEmail">>)
    /\ UNCHANGED <<users, inflight, now, uniqueIndex, clientVars>>

\* resetPassword with an empty $set.
ResetUpdateDropped(u, password) == u

\* resetPassword: the $set of findOneAndUpdate({_id: id}, ...)
ResetUpdate(u, password) == [u EXCEPT !.password = generateHash(password)]

ResetPassword(token, password) ==
    /\ IF Falsy(password) \/ token.purpose = "undefined"
       THEN /\ Callback("resetPassword", "Bad arguments", {}, {}, "", <<>>)
            /\ UNCHANGED <<users, outbox>>
       ELSE IF Len(password.val) < MinPasswordLength
       THEN /\ Callback("resetPassword",
                        "Password must be 6 or more characters.", {}, {}, "", <<>>)
            /\ UNCHANGED <<users, outbox>>
       ELSE IF verifyTempAuthToken(token).err # NULL \/ verifyTempAuthToken(token).id = 0
       THEN /\ Callback("resetPassword", verifyTempAuthToken(token).err, {}, {}, "", <<>>)
            /\ UNCHANGED <<users, outbox>>
       ELSE LET i == FirstMatch({k \in 1..Len(users) : users[k].id = verifyTempAuthToken(token).id})
            IN  IF i = 0
                THEN /\ Callback("resetPassword", NULL, {}, {}, "", <<"findOneAndUpdate">>)
                     /\ UNCHANGED <<users, outbox>>
                ELSE /\ users' = UpdateAt(i, ResetUpdate(users[i], password.val))
                     /\ outbox' = outbox \cup
                            {Mail("passwordChanged", users[i].email, NoToken)}
                     /\ Callback("resetPassword", NULL, {}, {},
                                 "Password successfully reset!", <<"findOneAndUpdate">>)
    /\ UNCHANGED <<inflight, now, uniqueIndex, clientVars>>

\* Time passes.
Tick ==
    /\ now < MaxClock
    /\ now' = now + 1
    /\ UNCHANGED <<users, inflight, outbox, cb, uniqueIndex, clientVars>>

\* What callers can supply.
Profiles == {[name |-> "Ada"], [name |-> ""]}
Ids == 1..MaxUsers
MailedTokens(kind) == {m.token : m \in MailsOf(kind)}
VerificationTokens == MailedTokens("verification") \cup {BadToken}
ResetTokens == MailedTokens("passwordReset") \cup {BadToken, NoToken}
ValidPasswords == {p \in PasswordArgs : canRegister(<<>>, p) = NULL}

----------------------------------------------------------------------------
\* The client reducer.

initialState ==
    [playing |-> FALSE, token |-> NULL, isFetching |-> FALSE, isError |-> FALSE,
     users |-> "[]", currentUser |-> "{}", user |-> "undefined",
     time |-> "undefined", volume |-> "undefined", dropDownOpen |-> "undefined"]

\* USERS_REQUEST leaving the error flag as it is.
UsersRequestKeepsError(s) == [s EXCEPT !.isFetching = TRUE, !.users = s.users]

UsersRequest(s) == [s EXCEPT !.isFetching = TRUE, !.isError = FALSE, !.users = s.users]
UsersSuccess(s, payload) ==
    [s EXCEPT !.isFetching = FALSE, !.isError = FALSE, !.users = payload]
UsersFailure(s) == [s EXCEPT !.isFetching = FALSE, !.isError = TRUE, !.users = NULL]
UserByIdRequest(s) ==
    [s EXCEPT !.isFetching = TRUE, !.isError = FALSE, !.currentUser = s.currentUser]
UserByIdSuccess(s, payload) ==
    [s EXCEPT !.isFetching = FALSE, !.isError = FALSE, !.currentUser = payload]
UserByIdFailure(s) ==
    [s EXCEPT !.isFetching = FALSE, !.isError = TRUE, !.currentUser = NULL]

reducer(s, action) ==
    CASE action.type = "SET_TOKEN" -> [s EXCEPT !.token = action.token]
      [] action.type = "SET_USER" -> [s EXCEPT !.user = action.user]
      [] action.type = "SET_USER_AND_TOKEN" ->
            [s EXCEPT !.user = action.user, !.token = action.token]
      [] action.type = "TOGGLE_PLAY" -> [s EXCEPT !.playing = ~s.playing]
      [] action.type = "SET_TIME" -> [s EXCEPT !.time = action.time]
      [] action.type = "SET_VOLUME" -> [s EXCEPT !.volume = action.volume]
      [] action.type = "SET_DROP_DOWN" ->
            [s EXCEPT !.dropDownOpen = action.dropDownOpen]
      [] action.type = "LOAD_STORED_STATE" -> action.storedState
      [] action.type = "USERS_REQUEST" -> UsersRequest(s)
      [] action.type = "USERS_SUCCESS" -> UsersSuccess(s, action.payload)
      [] action.type = "USERS_FAILURE" -> UsersFailure(s)
      [] action.type = "USER_BY_ID_REQUEST" -> UserByIdRequest(s)
      [] action.type = "USER_BY_ID_SUCCESS" -> UserByIdSuccess(s, action.payload)
      [] action.type = "USER_BY_ID_FAILURE" -> UserByIdFailure(s)
      [] OTHER -> s

Action(type) ==
    [type |-> type, token |-> NULL, user |-> "undefined", time |-> "undefined",
     volume |-> "undefined", dropDownOpen |-> "undefined", payload |-> NULL,
     storedState |-> initialState]

StoredStates ==
    {initialState, [initialState EXCEPT !.token = "jwt", !.isError = TRUE]}

\* store.dispatch(action) for an action outside the two fetch lifecycles.
Dispatch(action) ==
    /\ state' = reducer(state, action)
    /\ loaded' = (loaded \/ action.type = "LOAD_STORED_STATE")
    /\ UNCHANGED <<fetch, lastFetch, serverVars>>

\* A fetch lifecycle: the request action when the fetch starts, then the
\* success or the failure action when it completes.
FetchRequest(which, type) ==
    /\ fetch[which] # "requested"
    /\ state' = reducer(state, Action(type))
    /\ fetch' = [fetch EXCEPT ![which] = "requested"]
    /\ lastFetch' = "request"
    /\ UNCHANGED <<loaded, serverVars>>

FetchSuccess(which, type, payload) ==
    /\ fetch[which] = "requested"
    /\ state' = reducer(state, [Action(type) EXCEPT !.payload = payload])
    /\ fetch' = [fetch EXCEPT ![which] = "succeeded"]
    /\ lastFetch' = "success"
    /\ UNCHANGED <<loaded, serverVars>>

FetchFailure(which, type) ==
    /\ fetch[which] = "requested"
    /\ state' = reducer(state, Action(type))
    /\ fetch' = [fetch EXCEPT ![which] = "failed"]
    /\ lastFetch' = "failure"
    /\ UNCHANGED <<loaded, serverVars>>

ClientNext ==
    \/ Dispatch([Action("SET_TOKEN") EXCEPT !.token = "jwt"])
    \/ Dispatch([Action("SET_USER") EXCEPT !.user = "ada"])
    \/ Dispatch([Action("SET_USER_AND_TOKEN") EXCEPT !.user = "bob", !.token = "jwt2"])
    \/ Dispatch(Action("TOGGLE_PLAY"))
    \/ Dispatch([Action("SET_TIME") EXCEPT !.time = "0:42"])
    \/ Dispatch([Action("SET_VOLUME") EXCEPT !.volume = "80"])
    \/ Dispatch([Action("SET_DROP_DOWN") EXCEPT !.dropDownOpen = "true"])
    \/ \E s \in StoredStates :
          Dispatch([Action("LOAD_STORED_STATE") EXCEPT !.storedState = s])
    \/ FetchRequest("users", "USERS_REQUEST")
    \/ FetchSuccess("users", "USERS_SUCCESS", "[ada, bob]")
    \/ FetchFailure("users", "USERS_FAILURE")
    \/ FetchRequest("userById", "USER_BY_ID_REQUEST")
    \/ FetchSuccess("userById", "USER_BY_ID_SUCCESS", "{ada}")
    \/ FetchFailure("userById", "USER_BY_ID_FAILURE")

----------------------------------------------------------------------------
\* Specifications.

ServerInit ==
    /\ users = <<>>
    /\ inflight = {}
    /\ outbox = {}
    /\ cb = Result("none", NULL, {}, {}, "", <<>>)
    /\ now = 1

ClientInit ==
    /\ state = initialState
    /\ fetch = [users |-> "idle", userById |-> "idle"]
    /\ lastFetch = "none"
    /\ loaded = FALSE

Init == ServerInit /\ ClientInit /\ uniqueIndex = TRUE

\* Registration, login, verification and password reset.
AccountEmails == {E_ab, E_AB, E_axb}
LoginEmails == AccountEmails \cup {E_undefined}

Next ==
    \/ \E e \in {Str(x) : x \in AccountEmails} \cup {NoEmail}, p \in PasswordArgs :
          CreateUser(e, p)
    \/ \E c \in inflight : CreateUserSave(c)
    \/ \E e \in LoginEmails, p \in PasswordArgs : LoginWithPassword(e, p)
    \/ \E t \in VerificationTokens : VerifyByToken(t)
    \/ \E e \in AccountEmails : SendPasswordResetEmail(e)
    \/ \E t \in ResetTokens, p \in PasswordArgs : ResetPassword(t, p)
    \/ Tick

Spec == Init /\ [][Next]_vars

\* Registration, one call at a time: a call starts after the one before it
\* has called back.
SeqNext ==
    \/ \E e \in EmailArgs, p \in PasswordArgs : inflight = {} /\ CreateUser(e, p)
    \/ \E c \in inflight : CreateUserSave(c)

SeqSpec == Init /\ [][SeqNext]_vars

\* Concurrent registration against a store with or without the unique index.
RaceInit == ServerInit /\ ClientInit /\ uniqueIndex \in BOOLEAN

RaceNext ==
    \/ \E e \in EmailArgs, p \in ValidPasswords : CreateUser(e, p)
    \/ \E c \in inflight : CreateUserSave(c)

RaceSpec == RaceInit /\ [][RaceNext]_vars

\* Verification and profile update.
VerifyNext ==
    \/ \E e \in EmailArgs : CreateUser(e, Str("secret"))
    \/ \E c \in inflight : CreateUserSave(c)
    \/ \E t \in VerificationTokens : VerifyByToken(t)
    \/ \E id \in Ids : SendVerificationEmailById(id)
    \/ \E id \in Ids, pr \in Profiles : UpdateProfileById(id, pr)
    \/ \E e \in EmailStrings : SendPasswordResetEmail(e)
    \/ \E t \in ResetTokens : ResetPassword(t, Str("hunter2"))
    \/ Tick

VerifySpec == Init /\ [][VerifyNext]_vars

\* The client store.
ClientSpec == Init /\ [][ClientNext]_vars

----------------------------------------------------------------------------
\* Registration (Spec).

ShortPassword(p) == Falsy(p) \/ Len(p.val) < 6

\* C1: a createUser call whose password is absent or shorter than 6
\* characters calls back with an error and makes no store operation: the
\* stored users are the same after it, no save is issued, no token is
\* generated and no mail is sent.
C1_ShortPasswordFailsBeforeStore ==
    [][\A e \in EmailArgs, p \in {q \in PasswordArgs : ShortPassword(q)} :
          CreateUser(e, p) =>
              /\ cb'.op = "createUser"
              /\ cb'.err # NULL
              /\ cb'.store = <<>>
              /\ cb'.token = {}
              /\ users' = users
              /\ inflight' = inflight
              /\ outbox' = outbox]_vars

\* A short password was refused while a user is stored.
C1_Witness ==
    /\ cb.op = "createUser"
    /\ cb.err = "Password must be 6 or more characters."
    /\ Len(users) >= 1

\* C8 (as claimed): the user handed to a successful callback of createUser
\* or of loginWithPassword has no password field.
C8_NoPasswordHandedOut ==
    (cb.op \in {"createUser", "loginWithPassword"} /\ cb.err = NULL) =>
        \A u \in cb.user : "password" \notin DOMAIN u

\* The part of C8 that the code keeps: loginWithPassword strips the hash.
C8_LoginStripsPassword ==
    (cb.op = "loginWithPassword" /\ cb.err = NULL) =>
        (cb.user # {} /\ \A u \in cb.user : "password" \notin DOMAIN u)

----------------------------------------------------------------------------
\* Login (Spec).

\* C4: for every stored user, a login attempt whose password does not match
\* the stored hash calls back with an error and with neither token nor user,
\* and an attempt with the registered email and the matching password calls
\* back with no error, that user's session token and that user.
C4_LoginMatchesStoredHash ==
    [][\A i \in 1..Len(users), e \in LoginEmails, p \in PasswordArgs :
          (/\ cb'.op = "loginWithPassword"
           /\ toLowerCase(e) = users[i].email
           /\ LoginWithPassword(e, p)) =>
              /\ ~checkPassword(users[i], p.val) =>
                    (cb'.err # NULL /\ cb'.token = {} /\ cb'.user = {})
              /\ (e = users[i].email /\ checkPassword(users[i], p.val)) =>
                    /\ cb'.err = NULL
                    /\ cb'.token = {generateAuthToken(users[i])}
                    /\ cb'.user # {}
                    /\ \A u \in cb'.user : u.id = users[i].id]_vars

\* The second of two stored users has logged in after a password reset.
C4_Witness ==
    /\ cb.op = "loginWithPassword"
    /\ cb.err = NULL
    /\ Len(users) = 2
    /\ cb.token = {generateAuthToken(users[2])}
    /\ MailsOf("passwordChanged") # {}

----------------------------------------------------------------------------
\* Password reset (Spec).

\* A resetPassword call with a mailed, unexpired token for a stored user and
\* a new password of 6 characters or more that is not the current one.
ResetCase(t, p) ==
    /\ t \in MailedTokens("passwordReset")
    /\ now < t.exp
    /\ t.id \in 1..Len(users)
    /\ ~ShortPassword(p)
    /\ ~checkPassword(users[t.id], p.val)

\* C6: after resetPassword with the issued unexpired token and a new
\* password, the stored hash is the hash of the new password, a login with
\* the new password succeeds, a login with the old one fails with an error,
\* and the verified flag is unchanged.
C6_ResetReplacesPassword ==
    [][\A t \in ResetTokens, p \in PasswordArgs :
          (cb'.op = "resetPassword" /\ ResetCase(t, p) /\ ResetPassword(t, p)) =>
              /\ users'[t.id].password = generateHash(p.val)
              /\ users'[t.id].verified = users[t.id].verified
              /\ LoginResult(users[t.id].email, p)'.err = NULL
              /\ LoginResult(users[t.id].email, p)'.token =
                    {generateAuthToken(users[t.id])}
              /\ \A q \in ValidPasswords :
                    checkPassword(users[t.id], q.val) =>
                        LoginResult(users[t.id].email, q)'.err # NULL]_vars

\* A verified user's password has been reset.
C6_Witness ==
    /\ cb.op = "resetPassword"
    /\ cb.info = "Password successfully reset!"
    /\ \E i \in 1..Len(users) :
          /\ users[i].verified
          /\ \E m \in MailsOf("passwordChanged") : m.to = users[i].email

----------------------------------------------------------------------------
\* Sequential registration (SeqSpec).

\* C2: of two createUser calls run one after the other with valid passwords
\* and emails equal after lowercasing, the first succeeds and stores exactly
\* one user, and the second calls back with "An account for this email
\* already exists." and stores nothing.
C2_SecondRegistrationRefused ==
    [][/\ \A c \in inflight :
             (CreateUserSave(c) /\ \A i \in 1..Len(users) : users[i].email # c.email) =>
                 /\ cb'.err = NULL
                 /\ Len(users') = Len(users) + 1
                 /\ SubSeq(users', 1, Len(users)) = users
                 /\ users'[Len(users')].email = c.email
       /\ \A e \in EmailStrings, p \in ValidPasswords :
             (/\ \E i \in 1..Len(users) : users[i].email = toLowerCase(e)
              /\ CreateUser(Str(e), p)) =>
                 /\ cb'.err = "An account for this email already exists."
                 /\ users' = users
                 /\ inflight' = inflight]_vars

\* A second registration, differing in case only, has been refused.
C2_Witness ==
    /\ cb.op = "createUser"
    /\ cb.err = "An account for this email already exists."
    /\ Len(users) = 1

----------------------------------------------------------------------------
\* Concurrent registration (RaceSpec).

EmailUnique ==
    \A i, j \in 1..Len(users) :
        toLowerCase(users[i].email) = toLowerCase(users[j].email) => i = j

\* C3 (as claimed): in every reachable state, whatever the interleaving of
\* the lookups and saves of concurrent createUser calls, the store holds at
\* most one user per lowercased email, by createUser's lookup-then-save alone.
C3_UniqueByLookupThenSave == EmailUnique

\* C3 (amended): the store holds at most one user per lowercased email in
\* every reachable state provided the collection carries the unique index.
C3_UniqueWithIndex == uniqueIndex => EmailUnique

\* Two calls for one email both passed the lookup, and the index refused
\* the second save.
C3_Witness ==
    /\ uniqueIndex
    /\ cb.err = "E11000 duplicate key error"
    /\ Len(users) = 1

----------------------------------------------------------------------------
\* Verification and profile update (VerifySpec).

\* C5 (as claimed): verifyByToken with a token for email e sets verified on
\* exactly the stored users whose email equals e case-insensitively and
\* changes nothing else, also when e holds "." or "+".
C5_VerifiesExactlyTheTokenEmail ==
    [][\A t \in VerificationTokens :
          (cb'.op = "verifyByToken" /\ t.purpose = "verify" /\ VerifyByToken(t)) =>
              users' = [i \in 1..Len(users) |->
                          IF toLowerCase(users[i].email) = toLowerCase(t.email)
                          THEN [users[i] EXCEPT !.verified = TRUE]
                          ELSE users[i]]]_vars

\* C7 (as claimed): a call that performs no effect and hands back no result
\* calls back with a non-null error.
C7_FailuresCarryAnError ==
    (/\ cb.op \in {"verifyByToken", "resetPassword", "sendVerificationEmailById"}
     /\ cb.user = {}
     /\ cb.token = {}
     /\ cb.info = "") => cb.err # NULL

\* C9: updateProfileById with an invalid profile changes no user and calls
\* back with "invalid profile"; with a valid profile it changes nothing for
\* an unverified (or unknown) user, and for a verified user it sets profile,
\* completedProfile and lastUpdated of that user and changes no other user.
C9_ProfileUpdateNeedsVerified ==
    [][\A id \in Ids, pr \in Profiles :
          (cb'.op = "updateProfileById" /\ UpdateProfileById(id, pr)) =>
              IF validateProfile(pr) # NULL
              THEN users' = users /\ cb'.err = "invalid profile"
              ELSE IF id \in 1..Len(users) /\ users[id].verified
              THEN users' = [users EXCEPT ![id].profile = pr,
                                          ![id].completedProfile = TRUE,
                                          ![id].lastUpdated = now]
              ELSE users' = users]_vars

\* A verified user's profile has been set at a later time than registration,
\* beside an unverified user whose profile is still empty.
C9_Witness ==
    /\ cb.op = "updateProfileById"
    /\ \E i, j \in 1..Len(users) :
          /\ users[i].verified /\ users[i].completedProfile
          /\ users[i].profile = [name |-> "Ada"] /\ users[i].lastUpdated = MaxClock
          /\ ~users[j].verified /\ ~users[j].completedProfile

----------------------------------------------------------------------------
\* The client store (ClientSpec).

Outstanding == fetch.users = "requested" \/ fetch.userById = "requested"
Failed == fetch.users = "failed" \/ fetch.userById = "failed"

\* C10 (as claimed): the flags track the two lifecycles independently:
\* isFetching is true whenever one of the two fetches is outstanding, and
\* isError stays true while one of the two fetches has failed last.
C10_FlagsTrackEachLifecycle ==
    ~loaded => /\ Outstanding => state.isFetching
               /\ Failed => state.isError

\* C10 (amended): the two lifecycles share one pair of flags: isFetching is
\* true exactly when the latest fetch action of either lifecycle was a
\* request, and isError exactly when it was a failure.
C10_FlagsFollowLatestFetchAction ==
    ~loaded => /\ state.isFetching <=> lastFetch = "request"
               /\ state.isError <=> lastFetch = "failure"

\* The users fetch is still outstanding after the success of the user-by-id
\* fetch has cleared isFetching.
C10_Witness ==
    /\ ~loaded
    /\ fetch.users = "requested"
    /\ fetch.userById = "succeeded"
    /\ lastFetch = "success"
    /\ ~state.isFetching

====
